---- MODULE Spec2Model ----
(***************************************************************************)
(* A model of the quizz scheduling engine:                                 *)
(*   - the simple knowledge-state store with its export and import         *)
(*     (questionState.ts),                                                 *)
(*   - LocalQuestionManager (questionManager.ts),                          *)
(*   - the SM-2 learning engine, its stored cards, session and daily       *)
(*     goals, and SmartSelector (learningEngine.ts, learningState.ts,      *)
(*     smartQuestionManager.ts),                                           *)
(*   - the backend's POST /questions/next and POST /answers (routes.ts).   *)
(* Time is counted in ticks; DayTicks ticks make the 24*60*60*1000 ms of   *)
(* one day.                                                                *)
(***************************************************************************)
EXTENDS Integers, Sequences, FiniteSets, TLC

\* ------------------------------------------------------------------ bounds

\* Answers of one run of correct / incorrect answers from the default state.
MaxEvents == 11
\* Largest value of the clock (ticks) in a run of answers.
MaxNow == 3
\* Answers between the calls of LocalQuestionManager.
MaxMgrEvents == 1
\* Answers rated on the learning screen.
MaxLearnAnswers == 1
\* Days that pass on the learning screen.
MaxLearnDays == 1
\* Largest batch asked of getSessionQuestions.
MaxCards == 4
\* Answers rated between the batches of a study session.
MaxSessionAnswers == 1
\* Days that pass between the batches of a study session.
MaxSessionDays == 1
\* Answers posted to the backend.
MaxBackendAnswers == 2
\* Days that pass at the backend.
MaxBackendDays == 1
\* Answers and manual ratings applied to the store.
MaxStoreEvents == 3
\* Last value of the clock (ticks) from which time passes on the store.
MaxStoreNow == 3
\* Answers recorded between the imports into the store.
MaxImportEvents == 2
\* Answers rated between the imports of learning data.
MaxLearnImportAnswers == 2
\* Days that pass between the imports of learning data.
MaxLearnImportDays == 1
\* Answers rated while the daily goals are followed.
MaxGoalAnswers == 2
\* Days that pass while the daily goals are followed.
MaxGoalDays == 2
\* Answers recorded with any confidence value.
MaxRecordAnswers == 2
\* Days that pass while answers with any confidence value are recorded.
MaxRecordDays == 2
\* Answers recorded between the batches asked for.
MaxBatchAnswers == 1
\* Days that pass between the batches asked for.
MaxBatchDays == 1
\* POST /answers requests for one question handled at the same time.
MaxRequests == 3
\* Reviews of one card by calculateNextReview.
MaxReviews == 3
\* Days that pass between the reviews of one card.
MaxReviewDays == 1

\* ------------------------------------------------------- program constants

\* 24 * 60 * 60 * 1000 ms, in ticks.
DayTicks == 2

VARIABLES
  now,                  \* Date.now(), in ticks
  events,               \* number of answers given so far
  questionStates,       \* localStorage['questionStates']: id -> QuestionState
  currentQuestionList,  \* LocalQuestionManager.currentQuestionList (ids)
  currentQuestionIndex, \* LocalQuestionManager.currentQuestionIndex (0-based)
  served,               \* what the last getNextQuestion gave: an id or an error
  run,                  \* the calls since the working list was last rebuilt
                        \*   (observation; see NoRun)
  learningCards,        \* localStorage['learning-cards']: id -> LearningCard
  sessionStats,         \* localStorage['current-session'] (<< >>: not stored)
  dailyGoals,           \* localStorage['daily-goals'] (<< >>: not stored)
  lastSelectedIds,      \* SmartSelector.lastSelectedIds, in insertion order
  selection,            \* the last SmartSelector.getNextQuestion: what it
                        \*   gave and what it chose from (see NoSelection)
  sessionQuestions,     \* what the last getSessionQuestions gave (ids)
  question_stats,       \* table question_stats: question_id -> row
  response_history,     \* table response_history, in insertion order
  response,             \* the last response of the backend
  inflight,             \* the POST /answers requests being handled: request
                        \*   -> where its handler is and what it has read
  storedArray,          \* localStorage['questionStates'] holds a JSON array
  imported,             \* the last importState: its text and what it returned
  learnImported         \* the last importLearningData: text and return value

stateVars == <<questionStates>>
mgrVars == <<currentQuestionList, currentQuestionIndex, served, run>>
learnVars == <<learningCards, sessionStats, dailyGoals>>
selVars == <<lastSelectedIds, selection, sessionQuestions>>
backendVars == <<question_stats, response_history, response, inflight>>
importVars == <<storedArray, imported, learnImported>>
vars == <<now, events, questionStates,
          currentQuestionList, currentQuestionIndex, served, run,
          learningCards, sessionStats, dailyGoals,
          lastSelectedIds, selection, sessionQuestions,
          question_stats, response_history, response, inflight,
          storedArray, imported, learnImported>>

\* ---------------------------------------------------------- question bank

\* questions.json: sections > quizzes > questions (ids), in file order.
questionsData ==
  << [section |-> "S1",
      quizzes |-> << [url |-> "A", questions |-> <<"q1">>],
                     [url |-> "B", questions |-> <<"q2">>] >>],
     [section |-> "S2",
      quizzes |-> << [url |-> "C", questions |-> <<"q3">>] >>] >>

QuestionIds == {"q1", "q2", "q3"}

\* The ids of the questions of the learning screen.
LearnIds == {"q1", "q2", "q3", "q4", "q5", "q6"}

\* Range(s): the elements of a sequence.
Range(s) == {s[i] : i \in DOMAIN s}

NoDuplicates(s) == \A i, j \in DOMAIN s : i # j => s[i] # s[j]

\* ------------------------------------------------ questionState.ts (store)

DefaultState ==
  [rating |-> 0, correctStreak |-> 0, incorrectCount |-> 0, lastAnswered |-> 0]

StateFields == {"rating", "correctStreak", "incorrectCount", "lastAnswered"}

loadQuestionStates == questionStates

\* states[questionId] || { rating: 0, ... }
StateOf(states, questionId) ==
  IF questionId \in DOMAIN states THEN states[questionId] ELSE DefaultState

getQuestionState(questionId) == StateOf(loadQuestionStates, questionId)

\* { ...updates, lastAnswered: Date.now() } over the default state: the
\* current state left out.
MergeStateFromDefault(current, updates) ==
  [f \in StateFields |->
     IF f = "lastAnswered" THEN now
     ELSE IF f \in DOMAIN updates THEN updates[f]
     ELSE DefaultState[f]]

\* { ...current, ...updates, lastAnswered: Date.now() }
MergeState(current, updates) ==
  [f \in StateFields |->
     IF f = "lastAnswered" THEN now
     ELSE IF f \in DOMAIN updates THEN updates[f]
     ELSE current[f]]

\* The stored map after updateQuestionState(questionId, updates).  When the
\* stored text is a JSON array, states[questionId] = updated sets a named
\* property of an array, which JSON.stringify leaves out: nothing changes.
updateQuestionState(questionId, updates) ==
  LET updated == MergeState(getQuestionState(questionId), updates)
  IN  IF storedArray THEN questionStates
      ELSE [k \in DOMAIN questionStates \cup {questionId} |->
              IF k = questionId THEN updated ELSE questionStates[k]]

RatingAfterCorrect(rating) == rating + 1

RatingAfterIncorrect(rating) == IF rating - 1 < 0 THEN 0 ELSE rating - 1

\* The updates updateRatingAfterAnswer passes to updateQuestionState.
AnswerUpdates(current, isCorrect) ==
  IF isCorrect
    THEN [rating |-> RatingAfterCorrect(current.rating),
          correctStreak |-> current.correctStreak + 1]
    ELSE [rating |-> RatingAfterIncorrect(current.rating),
          correctStreak |-> 0,
          incorrectCount |-> current.incorrectCount + 1]

updateRatingAfterAnswer(questionId, isCorrect) ==
  questionStates' =
    updateQuestionState(questionId,
                        AnswerUpdates(getQuestionState(questionId), isCorrect))

setQuestionRating(questionId, rating) ==
  questionStates' = updateQuestionState(questionId, [rating |-> rating])

\* The first argument in place of Math.min(a, b).
MinNoCap(a, b) == a

\* Math.min(a, b)
Min(a, b) == IF a < b THEN a ELSE b

calculateNeedScore(state, at) ==
  LET ratingScore == 100 - (state.rating * 15)
      incorrectBoost == state.incorrectCount * 5
      streakPenalty == state.correctStreak * 3
      daysSinceLastAnswer ==
        IF state.lastAnswered > 0
          THEN (at - state.lastAnswered) \div DayTicks
          ELSE 0
      timeBoost == Min(daysSinceLastAnswer, 30)
  IN  ratingScore + incorrectBoost - streakPenalty + timeBoost

\* ------------------------------- questionState.ts (export and import)

\* A text handed to JSON.parse: Garbage is no JSON at all; the others are the
\* JSON values as written, an object being the sequence of its <<key, value>>
\* members in the order of the text.
Garbage == [kind |-> "garbage"]
JNumber(n) == [kind |-> "number", value |-> n]
JString(chars) == [kind |-> "string", chars |-> chars]
JNull == [kind |-> "null"]
JArray(items) == [kind |-> "array", items |-> items]
JObject(members) == [kind |-> "object", members |-> members]

\* The order in which the keys of an object are written out.
KeyOrder ==
  <<"q1", "q2", "q3", "rating", "correctStreak", "incorrectCount",
    "lastAnswered">>

\* The keys of an object, all but the last one.
KeysInOrderButLast(keys) ==
  LET all == SelectSeq(KeyOrder, LAMBDA k : k \in keys)
  IN  IF all = << >> THEN all ELSE SubSeq(all, 1, Len(all) - 1)

\* The own keys of an object, as JSON.stringify goes through them.
KeysInOrder(keys) == SelectSeq(KeyOrder, LAMBDA k : k \in keys)

\* JSON.stringify(value): a value of the program is [type |-> "number",
\* value |-> n], [type |-> "string", chars |-> c], [type |-> "null"],
\* [type |-> "array", items |-> sequence] or [type |-> "object",
\* props |-> key -> value].
RECURSIVE JSONstringify(_)
JSONstringify(value) ==
  CASE value.type = "number" -> JNumber(value.value)
    [] value.type = "string" -> JString(value.chars)
    [] value.type = "null" -> JNull
    [] value.type = "array" ->
         JArray([i \in DOMAIN value.items |-> JSONstringify(value.items[i])])
    [] value.type = "object" ->
         LET keys == KeysInOrder(DOMAIN value.props)
         IN  JObject([i \in DOMAIN keys |->
                        <<keys[i], JSONstringify(value.props[keys[i]])>>])

\* JSON.parse throws a SyntaxError.
ParseThrows(text) == text.kind = "garbage"

\* JSON.parse(text); of the members of one key the last one counts.
RECURSIVE JSONparse(_)
JSONparse(text) ==
  CASE text.kind = "number" -> [type |-> "number", value |-> text.value]
    [] text.kind = "string" -> [type |-> "string", chars |-> text.chars]
    [] text.kind = "null" -> [type |-> "null"]
    [] text.kind = "array" ->
         [type |-> "array",
          items |-> [i \in DOMAIN text.items |-> JSONparse(text.items[i])]]
    [] text.kind = "object" ->
         LET members == text.members
             keys == {members[i][1] : i \in DOMAIN members}
             last(k) == CHOOSE i \in DOMAIN members :
                          /\ members[i][1] = k
                          /\ \A j \in DOMAIN members :
                               members[j][1] = k => j <= i
         IN  [type |-> "object",
              props |-> [k \in keys |-> JSONparse(members[last(k)][2])]]

\* typeof value
TypeOf(value) ==
  IF value.type \in {"null", "array", "object"} THEN "object" ELSE value.type

\* What loadQuestionStates returns, as a value of the program.
StatesValue ==
  IF storedArray THEN [type |-> "array", items |-> << >>]
  ELSE [type |-> "object",
        props |->
          [id \in DOMAIN questionStates |->
             [type |-> "object",
              props |-> [f \in DOMAIN questionStates[id] |->
                           [type |-> "number",
                            value |-> questionStates[id][f]]]]]]

\* JSON.stringify(states, null, 2)
exportState == JSONstringify(StatesValue)

\* Object.entries(states), the values.
EntriesOf(states) ==
  IF states.type = "array" THEN Range(states.items)
  ELSE {states.props[k] : k \in DOMAIN states.props}

\* Only typeof state.rating === 'number' is asked for.
ValidRecordRatingOnly(state) ==
  /\ state.type = "object"
  /\ "rating" \in DOMAIN state.props
  /\ TypeOf(state.props["rating"]) = "number"

\* None of the four typeof tests of the validation loop throws; a value
\* without properties (a number, a string, an array) has them undefined, and
\* reading a property of null throws.
ValidRecord(state) ==
  /\ state.type = "object"
  /\ \A f \in StateFields :
       f \in DOMAIN state.props /\ TypeOf(state.props[f]) = "number"

\* importState reaches saveQuestionStates.
ImportAccepts(text) ==
  /\ ~ParseThrows(text)
  /\ LET states == JSONparse(text)
     IN  /\ TypeOf(states) = "object"
         /\ states.type # "null"
         /\ \A state \in EntriesOf(states) : ValidRecord(state)

\* The state map read back after saveQuestionStates(states).  An array is
\* stored as an array; of the arrays imported here only the empty one
\* passes the validation.
SavedStates(states) ==
  LET stored == JSONparse(JSONstringify(states))
  IN  IF stored.type = "array" THEN << >>
      ELSE [id \in DOMAIN stored.props |->
              [f \in DOMAIN stored.props[id].props |->
                 stored.props[id].props[f].value]]

importState(text) ==
  IF ImportAccepts(text)
    THEN /\ questionStates' = SavedStates(JSONparse(text))
         /\ storedArray' = (JSONparse(text).type = "array")
         /\ imported' = [called |-> TRUE, ok |-> TRUE, text |-> text]
    ELSE /\ UNCHANGED <<questionStates, storedArray>>
         /\ imported' = [called |-> TRUE, ok |-> FALSE, text |-> text]

\* ------------------------------- questionManager.ts (LocalQuestionManager)

\* The questions of the quizzes the quiz filter lets through, in file order.
RECURSIVE QuizQuestions(_, _)
QuizQuestions(quizList, quizFilter) ==
  IF quizList = << >> THEN << >>
  ELSE LET quiz == Head(quizList)
           skip == quizFilter # {} /\ quiz.url \notin quizFilter
       IN  (IF skip THEN << >> ELSE quiz.questions)
             \o QuizQuestions(Tail(quizList), quizFilter)

RECURSIVE SectionQuestions(_, _, _)
SectionQuestions(sectionList, sectionFilter, quizFilter) ==
  IF sectionList = << >> THEN << >>
  ELSE LET section == Head(sectionList)
           skip == sectionFilter # {} /\ section.section \notin sectionFilter
       IN  (IF skip THEN << >> ELSE QuizQuestions(section.quizzes, quizFilter))
             \o SectionQuestions(Tail(sectionList), sectionFilter, quizFilter)

\* An undefined filter and an empty one are both {}: the code treats them alike.
getAllQuestions(sectionFilter, quizFilter) ==
  SectionQuestions(questionsData, sectionFilter, quizFilter)

\* state.rating >= ratingRange[0] && state.rating <= ratingRange[1]
InRatingRange(state, ratingRange) ==
  state.rating >= ratingRange[1] /\ state.rating <= ratingRange[2]

RECURSIVE FilterSeq(_, _, _)
FilterSeq(questions, states, ratingRange) ==
  IF questions = << >> THEN << >>
  ELSE (IF InRatingRange(StateOf(states, Head(questions)), ratingRange)
          THEN <<Head(questions)>> ELSE << >>)
         \o FilterSeq(Tail(questions), states, ratingRange)

\* The pool of a call: ratingRange << >> is "not specified".
FilteredPool(sections, quizzes, ratingRange) ==
  LET allQuestions == getAllQuestions(sections, quizzes)
  IN  IF ratingRange # << >>
        THEN FilterSeq(allQuestions, loadQuestionStates, ratingRange)
        ELSE allQuestions

\* A comparator that sorts ascending by need score.
CompareNeedAscending(stateA, stateB, at) ==
  calculateNeedScore(stateA, at) - calculateNeedScore(stateB, at)

\* The comparator of sortByNeed: scoreB - scoreA.
CompareNeed(stateA, stateB, at) ==
  calculateNeedScore(stateB, at) - calculateNeedScore(stateA, at)

\* Array.prototype.sort is stable: x goes behind every element it does not
\* precede.
RECURSIVE InsertByNeed(_, _, _, _)
InsertByNeed(sorted, x, states, at) ==
  IF sorted = << >> THEN <<x>>
  ELSE IF CompareNeed(StateOf(states, x), StateOf(states, Head(sorted)), at) < 0
         THEN <<x>> \o sorted
         ELSE <<Head(sorted)>> \o InsertByNeed(Tail(sorted), x, states, at)

RECURSIVE SortFrom(_, _, _, _)
SortFrom(sorted, rest, states, at) ==
  IF rest = << >> THEN sorted
  ELSE SortFrom(InsertByNeed(sorted, Head(rest), states, at), Tail(rest),
                states, at)

sortByNeed(questions) == SortFrom(<< >>, questions, loadQuestionStates, now)

\* An exchange that loses the element at i: newArray[i] = newArray[j] only.
SwapAtCopy(array, i, j) ==
  [k \in DOMAIN array |-> IF k = i + 1 THEN array[j + 1] ELSE array[k]]

\* [newArray[i], newArray[j]] = [newArray[j], newArray[i]], i and j 0-based.
SwapAt(array, i, j) ==
  [k \in DOMAIN array |->
     IF k = i + 1 THEN array[j + 1]
     ELSE IF k = j + 1 THEN array[i + 1]
     ELSE array[k]]

\* Every array the Fisher-Yates loop can leave, from index i down to 1, j being
\* Math.floor(Math.random() * (i + 1)).
RECURSIVE ShuffleFrom(_, _)
ShuffleFrom(array, i) ==
  IF i > 0
    THEN UNION {ShuffleFrom(SwapAt(array, i, j), i - 1) : j \in 0..i}
    ELSE {array}

shuffleArray(array) == ShuffleFrom(array, Len(array) - 1)

NeedsRebuild(list, allQuestions) ==
  Len(list) = 0 \/ Len(list) # Len(allQuestions)

\* The working lists a rebuild can produce.
RebuiltLists(allQuestions, shuffleMode, mostNeededMode) ==
  IF mostNeededMode THEN {sortByNeed(allQuestions)}
  ELSE IF shuffleMode THEN shuffleArray(allQuestions)
  ELSE {allQuestions}

ModeOf(shuffleMode, mostNeededMode) ==
  IF mostNeededMode THEN "mostNeeded"
  ELSE IF shuffleMode THEN "shuffle"
  ELSE "sequential"

\* A position that stops at the last question instead of wrapping.
AdvanceIndexNoWrap(index, length) ==
  IF index + 1 < length THEN index + 1 ELSE index

\* (currentQuestionIndex + 1) % currentQuestionList.length
AdvanceIndex(index, length) == (index + 1) % length

\* A throwing call that resets the manager.
ManagerResetOnThrow(list, index) == <<<< >>, 0>>

\* The working list and position left by a call that throws on an empty pool.
ManagerAfterThrow(list, index) == <<list, index>>

\* The calls since the working list was last built (observation, not program
\* state): the pool and mode it was built from, the number of calls modulo the
\* pool's size, the first questions served (as many as the pool has), and
\* whether the stored states are still those of the build.  NoRun: nothing built yet.  MixedRun: a call
\* since the build had another pool or mode.
NoRun == [pool |-> << >>, mode |-> "none", calls |-> 0,
          servedSeq |-> << >>, statesSame |-> TRUE]

MixedRun == [NoRun EXCEPT !.mode = "mixed"]

\* A call of getNextQuestion on an empty pool: it throws 'No questions available
\* with the selected filters' before it touches the manager.
GetNextThrows(args) ==
  /\ Len(args.pool) = 0
  /\ served' = "NoQuestionsAvailable"
  /\ currentQuestionList' =
       ManagerAfterThrow(currentQuestionList, currentQuestionIndex)[1]
  /\ currentQuestionIndex' =
       ManagerAfterThrow(currentQuestionList, currentQuestionIndex)[2]
  /\ run' = IF run = NoRun THEN NoRun ELSE MixedRun

\* A call of getNextQuestion on a pool with questions.
GetNextServes(args) ==
  /\ Len(args.pool) # 0
  /\ LET rebuild == NeedsRebuild(currentQuestionList, args.pool)
         mode == ModeOf(args.shuffleMode, args.mostNeededMode)
     IN  \E list \in (IF rebuild
                        THEN RebuiltLists(args.pool, args.shuffleMode,
                                          args.mostNeededMode)
                        ELSE {currentQuestionList}) :
           LET index == IF rebuild THEN 0 ELSE currentQuestionIndex
               question == list[index + 1]
           IN  /\ currentQuestionList' = list
               /\ currentQuestionIndex' = AdvanceIndex(index, Len(list))
               /\ served' = question
               /\ run' =
                    IF rebuild
                      THEN [pool |-> args.pool, mode |-> mode,
                            calls |-> 1 % Len(args.pool),
                            servedSeq |-> <<question>>, statesSame |-> TRUE]
                      ELSE IF args.pool = run.pool /\ mode = run.mode
                        THEN [run EXCEPT
                                !.calls = (@ + 1) % Len(run.pool),
                                !.servedSeq =
                                   IF Len(@) < Len(run.pool)
                                     THEN Append(@, question) ELSE @]
                        ELSE MixedRun

\* Rating ranges the rating filter is set to (<< >>: no filter).
RatingRanges == {<< >>, <<1, 10>>}

\* Section and quiz selections of the settings panel.
Selections ==
  {<<{}, {}>>, <<{}, {"A"}>>, <<{}, {"C"}>>, <<{"S1"}, {"C"}>>}

\* The settings panel switches shuffle off when most-needed is switched on.
ModeFlags == {<<FALSE, FALSE>>, <<TRUE, FALSE>>, <<FALSE, TRUE>>}

CallArgs ==
  {[sections |-> sel[1], quizzes |-> sel[2], shuffleMode |-> m[1],
    mostNeededMode |-> m[2], ratingRange |-> rr,
    pool |-> FilteredPool(sel[1], sel[2], rr)] :
     sel \in Selections, m \in ModeFlags, rr \in RatingRanges}

\* One call of getNextQuestion: it reads the stored states and the clock.
GetNextCall(args) ==
  /\ GetNextThrows(args) \/ GetNextServes(args)
  /\ UNCHANGED <<now, events, stateVars, learnVars, selVars, backendVars,
               importVars>>

getNextQuestion == \E args \in CallArgs : GetNextCall(args)

\* ----------------------------------------------- learningEngine.ts (SM-2)

\* easeFactor is kept in hundredths: 2.5 is 250, 1.3 is 130.
InitialEase == 250
MinEase == 130
MaxEase == 250

\* confidenceHistory keeps the last 10 ratings.
HistoryCap == 10

\* averageConfidence is kept as the fraction sum / count.
Fraction(sum, count) == [sum |-> sum, count |-> count]

createLearningCard(questionId) ==
  [questionId |-> questionId, easeFactor |-> InitialEase, interval |-> 0,
   repetitions |-> 0, dueDate |-> now, totalReviews |-> 0,
   correctReviews |-> 0, lastReviewed |-> 0, confidenceHistory |-> << >>,
   averageConfidence |-> Fraction(0, 1), stage |-> "new", priority |-> 50]

\* 0.1 - (5 - q) * (0.08 + (5 - q) * 0.02), in hundredths.
EaseDelta(quality) == 10 - (5 - quality) * (8 + (5 - quality) * 2)

\* Math.max(1.3, newEF): the cap at 2.5 left out.
ClampEaseFloorOnly(ef) == IF ef < MinEase THEN MinEase ELSE ef

\* Math.max(1.3, Math.min(2.5, newEF))
ClampEase(ef) ==
  LET capped == IF ef > MaxEase THEN MaxEase ELSE ef
  IN  IF capped < MinEase THEN MinEase ELSE capped

\* Math.floor(interval * newEF) in place of Math.round.
RoundIntervalDown(interval, ef) == (interval * ef) \div 100

\* Math.round(interval * newEF), newEF in hundredths.
RoundInterval(interval, ef) == (interval * ef + 50) \div 100

\* The stage after a review, with 'review' from the first successful review.
StageAfterReviewNoLearning(failed, repetitions) ==
  IF failed THEN "learning"
  ELSE IF repetitions >= 5 THEN "mastered"
  ELSE "review"

\* The stage a review leaves: repetitions is the count after the review.
StageAfterReview(failed, repetitions) ==
  IF failed \/ repetitions = 1 \/ repetitions = 2 THEN "learning"
  ELSE IF repetitions >= 5 THEN "mastered"
  ELSE "review"

\* correctReviews after a review that counts every review as correct.
CorrectReviewsAfterAlways(correctReviews, wasCorrect) ==
  correctReviews + 1

\* correctReviews after a review.
CorrectReviewsAfter(correctReviews, wasCorrect) ==
  IF wasCorrect THEN correctReviews + 1 ELSE correctReviews

calculateNextReview(card, quality, wasCorrect) ==
  LET newEF == ClampEase(card.easeFactor + EaseDelta(quality))
      failed == quality < 3
      repetitions == IF failed THEN 0 ELSE card.repetitions + 1
      interval == IF failed \/ repetitions = 1 THEN 1
                  ELSE IF repetitions = 2 THEN 6
                  ELSE RoundInterval(card.interval, newEF)
      stage == StageAfterReview(failed, repetitions)
  IN  [card EXCEPT
         !.totalReviews = @ + 1,
         !.correctReviews = CorrectReviewsAfter(@, wasCorrect),
         !.lastReviewed = now,
         !.easeFactor = newEF,
         !.repetitions = repetitions,
         !.interval = interval,
         !.stage = stage,
         !.dueDate = now + interval * DayTicks]

confidenceToQuality(confidence, wasCorrect) ==
  IF ~wasCorrect THEN (IF confidence = 0 THEN 0 ELSE 1)
  ELSE CASE confidence = 0 -> 2
         [] confidence = 1 -> 3
         [] confidence = 2 -> 4
         [] confidence = 3 -> 5
         [] OTHER -> 3

\* averageConfidence < 1.5
LowConfidence(card) ==
  2 * card.averageConfidence.sum < 3 * card.averageConfidence.count

\* accuracy < 0.7 (tenths), accuracy being 0 without reviews.
LowAccuracy(card) ==
  card.totalReviews = 0 \/ 10 * card.correctReviews < 7 * card.totalReviews

\* A priority whose overdue part is daysOverdue * 10 alone.
calculatePriorityNoOverdueBase(card, at) ==
  (IF at > card.dueDate
     THEN ((at - card.dueDate) * 10) \div DayTicks ELSE 0)
  + (IF card.stage = "new" THEN 50 ELSE 0)
  + (IF card.stage = "learning" THEN 30 ELSE 0)
  + (IF LowConfidence(card) THEN 20 ELSE 0)
  + (IF LowAccuracy(card) THEN 15 ELSE 0)
  + (IF card.dueDate - at <= DayTicks /\ card.dueDate - at > 0
       THEN 10 ELSE 0)

\* The priority of a card at clock value at; daysOverdue * 10 is a whole
\* number because DayTicks divides 10.
calculatePriority(card, at) ==
  (IF at > card.dueDate
     THEN 100 + ((at - card.dueDate) * 10) \div DayTicks ELSE 0)
  + (IF card.stage = "new" THEN 50 ELSE 0)
  + (IF card.stage = "learning" THEN 30 ELSE 0)
  + (IF LowConfidence(card) THEN 20 ELSE 0)
  + (IF LowAccuracy(card) THEN 15 ELSE 0)
  + (IF card.dueDate - at <= DayTicks /\ card.dueDate - at > 0
       THEN 10 ELSE 0)

RECURSIVE SumSeq(_)
SumSeq(s) == IF s = << >> THEN 0 ELSE Head(s) + SumSeq(Tail(s))

\* [...history, confidence].slice(-10)
LastOf(s, n) == IF Len(s) > n THEN SubSeq(s, Len(s) - n + 1, Len(s)) ELSE s

updateConfidence(card, confidence) ==
  LET history == LastOf(Append(card.confidenceHistory, confidence), HistoryCap)
  IN  [card EXCEPT !.confidenceHistory = history,
                   !.averageConfidence = Fraction(SumSeq(history), Len(history))]

\* cards.filter(card => card.dueDate <= now)
getDueCards(cards) == SelectSeq(cards, LAMBDA card : card.dueDate <= now)

\* Array.prototype.sort with b.priority - a.priority is stable.
RECURSIVE InsertByPriority(_, _)
InsertByPriority(sorted, card) ==
  IF sorted = << >> THEN <<card>>
  ELSE IF Head(sorted).priority - card.priority < 0
         THEN <<card>> \o sorted
         ELSE <<Head(sorted)>> \o InsertByPriority(Tail(sorted), card)

RECURSIVE SortCardsFrom(_, _)
SortCardsFrom(sorted, rest) ==
  IF rest = << >> THEN sorted
  ELSE SortCardsFrom(InsertByPriority(sorted, Head(rest)), Tail(rest))

sortCardsByPriority(cards) == SortCardsFrom(<< >>, cards)

\* ------------------------------------------------------ learningState.ts

\* Minutes in one tick of the clock.
MinutesPerTick == (24 * 60) \div DayTicks

\* new Date(at).toDateString(), as the number of the day.
DateOf(at) == at \div DayTicks

\* A stored card as loadLearningCards returns it: its priority recomputed
\* (updateAllPriorities).
LoadedCard(questionId) ==
  [learningCards[questionId] EXCEPT
     !.priority = calculatePriority(learningCards[questionId], now)]

loadLearningCards == [id \in DOMAIN learningCards |-> LoadedCard(id)]

getLearningCard(questionId) ==
  IF questionId \in DOMAIN learningCards
    THEN LoadedCard(questionId)
    ELSE createLearningCard(questionId)

\* What createNewSession stores.
NewSession ==
  [startTime |-> now, questionsAnswered |-> 0, correctAnswers |-> 0,
   totalConfidence |-> 0, streak |-> 0, timeSpent |-> 0]

\* loadSessionStats on the stored session (<< >>: nothing stored).
LoadedSession(stored) == IF DOMAIN stored = {} THEN NewSession ELSE stored

\* The session an update stores that keeps the streak on an incorrect answer.
SessionAfterAnswerKeepStreak(stored, wasCorrect, confidence) ==
  LET stats == LoadedSession(stored)
  IN  [stats EXCEPT
         !.questionsAnswered = @ + 1,
         !.correctAnswers = IF wasCorrect THEN @ + 1 ELSE @,
         !.streak = IF wasCorrect THEN @ + 1 ELSE @,
         !.totalConfidence = @ + confidence,
         !.timeSpent = now - stats.startTime]

\* The session updateSessionStats stores.
SessionAfterAnswer(stored, wasCorrect, confidence) ==
  LET stats == LoadedSession(stored)
  IN  [stats EXCEPT
         !.questionsAnswered = @ + 1,
         !.correctAnswers = IF wasCorrect THEN @ + 1 ELSE @,
         !.streak = IF wasCorrect THEN @ + 1 ELSE 0,
         !.totalConfidence = @ + confidence,
         !.timeSpent = now - stats.startTime]

\* resetSession stores a new session.
resetSession == sessionStats' = NewSession

\* What createDefaultGoals stores.
DefaultGoals ==
  [targetCards |-> 20, cardsCompleted |-> 0, targetMinutes |-> 20,
   minutesSpent |-> 0, streak |-> 0, lastStudyDate |-> DateOf(now)]

\* loadDailyGoals on the stored goals: the counters restart on a new day.
LoadedGoals(stored) ==
  IF DOMAIN stored = {} THEN DefaultGoals
  ELSE IF stored.lastStudyDate # DateOf(now)
    THEN [stored EXCEPT !.cardsCompleted = 0, !.minutesSpent = 0,
                        !.lastStudyDate = DateOf(now)]
    ELSE stored

\* The goals updateDailyGoals stores, session being the stored session.
GoalsAfterAnswer(stored, session) ==
  LET goals == LoadedGoals(stored)
      cardsCompleted == session.questionsAnswered
      minutesSpent == session.timeSpent * MinutesPerTick
      wasGoalMet == cardsCompleted >= goals.targetCards
                    /\ minutesSpent >= goals.targetMinutes
      today == DateOf(now)
      yesterday == DateOf(now - DayTicks)
      counts == wasGoalMet /\ goals.lastStudyDate = today
                /\ (goals.lastStudyDate = yesterday \/ goals.streak = 0)
  IN  [goals EXCEPT !.cardsCompleted = cardsCompleted,
                    !.minutesSpent = minutesSpent,
                    !.streak = IF counts THEN @ + 1 ELSE @]

\* The card recordAnswer stores for the question.
AnsweredCard(questionId, wasCorrect, confidence) ==
  LET quality == confidenceToQuality(confidence, wasCorrect)
      reviewed == calculateNextReview(getLearningCard(questionId), quality,
                                      wasCorrect)
      rated == updateConfidence(reviewed, confidence)
  IN  [rated EXCEPT !.priority = calculatePriority(rated, now)]

recordAnswer(questionId, wasCorrect, confidence) ==
  LET cards == loadLearningCards
      card == AnsweredCard(questionId, wasCorrect, confidence)
      session == SessionAfterAnswer(sessionStats, wasCorrect, confidence)
  IN  /\ learningCards' =
           [id \in DOMAIN cards \cup {questionId} |->
              IF id = questionId THEN card ELSE cards[id]]
      /\ sessionStats' = session
      /\ dailyGoals' = GoalsAfterAnswer(dailyGoals, session)



\* The goals setDailyGoalTargets stores.
setDailyGoalTargets(targetCards, targetMinutes) ==
  dailyGoals' = [LoadedGoals(dailyGoals) EXCEPT
                   !.targetCards = targetCards,
                   !.targetMinutes = targetMinutes]

\* getLearningProgress reads the session and the goals; each read stores what
\* it made new (a first session, the default goals, the goals of a new day).
getLearningProgress ==
  /\ sessionStats' = LoadedSession(sessionStats)
  /\ dailyGoals' = LoadedGoals(dailyGoals)
  /\ UNCHANGED learningCards

\* ----------------------------------- learningState.ts (import of the data)

\* What the program reads for a property that is not there.
Undefined == [type |-> "undefined"]

\* data[name]; a number, a string and an array have no such property.
PropertyOf(data, name) ==
  IF data.type = "object" /\ name \in DOMAIN data.props
    THEN data.props[name] ELSE Undefined

\* if (value)
Truthy(value) ==
  CASE value.type \in {"undefined", "null"} -> FALSE
    [] value.type = "number" -> value.value # 0
    [] value.type = "string" -> value.chars # ""
    [] OTHER -> TRUE

\* A card read back from the stored text, with the properties the text has.
CardOf(value) ==
  [f \in DOMAIN value.props |->
     CASE f \in {"questionId", "stage"} -> value.props[f].chars
       [] f = "confidenceHistory" ->
            [i \in DOMAIN value.props[f].items |->
               value.props[f].items[i].value]
       [] f = "averageConfidence" -> Fraction(value.props[f].value, 1)
       [] OTHER -> value.props[f].value]

\* The cards read back after saveLearningCards(data.cards).
SavedCards(cards) == [id \in DOMAIN cards.props |-> CardOf(cards.props[id])]

\* The session or the goals read back after saveSessionStats(data.session)
\* or saveDailyGoals(data.goals): objects of numbers (the date of the goals
\* is the number of its day).
SavedNumbers(value) == [f \in DOMAIN value.props |-> value.props[f].value]

\* JSON.parse throws, or reading data.cards of null does.
LearnImportThrows(text) ==
  ParseThrows(text) \/ JSONparse(text).type = "null"

importLearningData(text) ==
  IF LearnImportThrows(text)
    THEN /\ UNCHANGED <<learningCards, sessionStats, dailyGoals>>
         /\ learnImported' = [called |-> TRUE, ok |-> FALSE, text |-> text]
    ELSE LET data == JSONparse(text)
             cards == PropertyOf(data, "cards")
             session == PropertyOf(data, "session")
             goals == PropertyOf(data, "goals")
         IN  /\ learningCards' =
                  IF Truthy(cards) THEN SavedCards(cards) ELSE learningCards
             /\ sessionStats' =
                  IF Truthy(session) THEN SavedNumbers(session)
                  ELSE sessionStats
             /\ dailyGoals' =
                  IF Truthy(goals) THEN SavedNumbers(goals) ELSE dailyGoals
             /\ learnImported' =
                  [called |-> TRUE, ok |-> TRUE, text |-> text]

\* ------------------------------------- smartQuestionManager.ts (SmartSelector)

MAX_RECENT == 5

StudyModes == {"smart", "due-only", "new-only", "review-only", "weak-areas"}

\* allQuestions.map(q => cardsMap[q.id] ? cardsMap[q.id] : getLearningCard(q.id))
CardsOf(allQuestions) ==
  [i \in DOMAIN allQuestions |-> getLearningCard(allQuestions[i])]

filterCardsByMode(cards, mode) ==
  CASE mode = "due-only" -> getDueCards(cards)
    [] mode = "new-only" -> SelectSeq(cards, LAMBDA c : c.stage = "new")
    [] mode = "review-only" ->
         SelectSeq(cards, LAMBDA c : c.stage = "review" \/ c.stage = "learning")
    [] mode = "weak-areas" ->
         SelectSeq(cards, LAMBDA c : LowAccuracy(c) \/ LowConfidence(c))
    [] OTHER -> cards

\* The cards the selection is made from: those of the mode or, when the mode
\* has none, all of them.
ModeCandidates(cards, mode) ==
  LET filteredCards == filterCardsByMode(cards, mode)
  IN  IF Len(filteredCards) = 0 THEN cards ELSE filteredCards

\* A filter that lets the recently selected cards through.
AvailableCardsAll(sortedCards, recent) == sortedCards

\* sortedCards.filter(card => !this.lastSelectedIds.has(card.questionId))
AvailableCards(sortedCards, recent) ==
  SelectSeq(sortedCards, LAMBDA card : card.questionId \notin Range(recent))

\* The cards the first of which is selected (none: the call returns null).
SelectedCards(candidates, recent) ==
  LET sortedCards == sortCardsByPriority(candidates)
      availableCards == AvailableCards(sortedCards, recent)
  IN  IF Len(availableCards) > 0 THEN availableCards ELSE sortedCards

\* lastSelectedIds (a Set, in insertion order) after add and the eviction of
\* the oldest id.
TrackSelected(recent, questionId) ==
  LET added == IF questionId \in Range(recent) THEN recent
               ELSE Append(recent, questionId)
  IN  IF Len(added) > MAX_RECENT THEN Tail(added) ELSE added

\* What is observed of a call that gave question: the number of questions it
\* was given (poolSize), whether the question was among the recently selected
\* ids when the call was made (wasRecent), and whether one of the candidates
\* (the cards of the mode or, when the mode has none, all cards) was not among
\* them (hadFresh).
NoSelection ==
  [question |-> "none", poolSize |-> 0, wasRecent |-> FALSE,
   hadFresh |-> FALSE]

Selection(question, allQuestions, candidates) ==
  [question |-> question,
   poolSize |-> Len(allQuestions),
   wasRecent |-> question \in Range(lastSelectedIds),
   hadFresh |-> \E i \in DOMAIN candidates :
                  candidates[i].questionId \notin Range(lastSelectedIds)]

\* SmartSelector.getNextQuestion(allQuestions, mode); the question map is
\* rebuilt from allQuestions at every call.
SmartGetNextQuestion(allQuestions, mode) ==
  LET candidates == ModeCandidates(CardsOf(allQuestions), mode)
      selectedCards == SelectedCards(candidates, lastSelectedIds)
  IN  IF Len(selectedCards) = 0
        THEN /\ selection' = Selection("null", allQuestions, candidates)
             /\ UNCHANGED lastSelectedIds
        ELSE /\ selection' = Selection(selectedCards[1].questionId,
                                       allQuestions, candidates)
             /\ lastSelectedIds' =
                  TrackSelected(lastSelectedIds, selectedCards[1].questionId)

\* sequence.slice(0, n)
Take(sequence, n) == SubSeq(sequence, 1, Min(n, Len(sequence)))

\* A due pass that takes every due card.
SessionDuePassNoCap(cards, maxCards) ==
  sortCardsByPriority(getDueCards(cards))

\* 1. Add due cards: the cards the first pass of getSessionQuestions adds.
SessionDuePass(cards, maxCards) ==
  LET sortedDueCards == sortCardsByPriority(getDueCards(cards))
      dueCount == Min(Len(sortedDueCards), (maxCards * 7) \div 10)
  IN  Take(sortedDueCards, dueCount)

\* 2. Add new cards if mixing: the cards the second pass adds to sessionCards.
SessionNewPass(cards, maxCards, mixNewCards, sessionCards) ==
  LET sortedNewCards ==
        sortCardsByPriority(SelectSeq(cards, LAMBDA c : c.stage = "new"))
      newCount == Min(Min(Len(sortedNewCards), maxCards - Len(sessionCards)),
                      (maxCards * 3) \div 10)
  IN  IF mixNewCards /\ Len(sessionCards) < maxCards
        THEN Take(sortedNewCards, newCount)
        ELSE << >>

\* 3. Fill remaining: the cards the third pass adds to sessionCards.
SessionRemainderPass(cards, maxCards, sessionCards) ==
  LET sessionIds == {sessionCards[i].questionId : i \in DOMAIN sessionCards}
      sortedRemaining ==
        sortCardsByPriority(
          SelectSeq(cards, LAMBDA c : c.questionId \notin sessionIds))
  IN  IF Len(sessionCards) < maxCards
        THEN Take(sortedRemaining, maxCards - Len(sessionCards))
        ELSE << >>

\* The ids SmartSelector.getSessionQuestions returns.
getSessionQuestions(allQuestions, maxCards, mixNewCards) ==
  LET cards == CardsOf(allQuestions)
      afterDue == SessionDuePass(cards, maxCards)
      afterNew ==
        afterDue \o SessionNewPass(cards, maxCards, mixNewCards, afterDue)
      sessionCards ==
        afterNew \o SessionRemainderPass(cards, maxCards, afterNew)
  IN  [i \in DOMAIN sessionCards |-> sessionCards[i].questionId]

\* ------------------------------------- backend: spacedRepetition.ts, routes.ts

\* The ease factor is in hundredths, as in the learning engine.
calculateSM2(quality, currentEaseFactor, currentInterval, currentRepetitions) ==
  LET q == IF quality > 5 THEN 5 ELSE IF quality < 0 THEN 0 ELSE quality
      raw == currentEaseFactor + (10 - (5 - q) * (8 + (5 - q) * 2))
      newEaseFactor == IF raw < 130 THEN 130 ELSE raw
      newRepetitions == IF q < 3 THEN 0 ELSE currentRepetitions + 1
      newInterval == IF q < 3 \/ newRepetitions = 1 THEN 1
                     ELSE IF newRepetitions = 2 THEN 6
                     ELSE (currentInterval * newEaseFactor + 50) \div 100
  IN  [easeFactor |-> newEaseFactor, intervalDays |-> newInterval,
       repetitions |-> newRepetitions]

correctnessToQuality(isCorrect) == IF isCorrect THEN 4 ELSE 0

\* getAllQuestions of routes.ts, over the same question bank.
BackendQuestions(sections, quizzes) == getAllQuestions(sections, quizzes)

\* The rows of question_stats with question_id = ANY(questionIds).
StatsRowsOf(questionIds) == DOMAIN question_stats \cap questionIds

\* ... AND next_review <= NOW()
DueRows(questionIds) ==
  {id \in StatsRowsOf(questionIds) : question_stats[id].next_review <= now}

\* ORDER BY next_review ASC LIMIT 1: the rows the query can return first.
EarliestOf(rows) ==
  {id \in rows :
     \A other \in rows :
       question_stats[id].next_review <= question_stats[other].next_review}

\* The last branch is taken always, not only when onlyDue is unset.
FallsBackToEarliestAlways(onlyDue) == TRUE

\* else if (!onlyDue)
FallsBackToEarliest(onlyDue) == ~onlyDue

\* The questions POST /questions/next can pick, {} when it picks none.
NextQuestionChoices(allQuestions, shuffleMode, onlyDue) ==
  LET questionIds == Range(allQuestions)
      unstudiedQuestions == questionIds \ StatsRowsOf(questionIds)
  IN  IF shuffleMode THEN questionIds
      ELSE IF DueRows(questionIds) # {} THEN EarliestOf(DueRows(questionIds))
      ELSE IF unstudiedQuestions # {} THEN unstudiedQuestions
      ELSE IF FallsBackToEarliest(onlyDue)
        THEN (IF StatsRowsOf(questionIds) # {}
                THEN EarliestOf(StatsRowsOf(questionIds))
                ELSE questionIds)
      ELSE {}

Response(status, error, question, strength) ==
  [status |-> status, error |-> error, question |-> question,
   strength |-> strength]

\* POST /questions/next; its queries are taken as one step.
PostQuestionsNext(sections, quizzes, shuffleMode, onlyDue) ==
  LET allQuestions == BackendQuestions(sections, quizzes)
      choices == NextQuestionChoices(allQuestions, shuffleMode, onlyDue)
  IN  /\ IF Len(allQuestions) = 0
           THEN response' = Response(404, "No questions available", "", "")
           ELSE IF choices = {}
             THEN response' = Response(404, "No questions due", "", "")
             ELSE \E nextQuestion \in choices :
                    response' = Response(200, "", nextQuestion, "")
      /\ UNCHANGED <<question_stats, response_history, inflight>>

\* The strength level POST /answers reports.
StrengthLevel(sm2Result, totalAttempts, correctAttempts) ==
  IF totalAttempts = 0 THEN "New"
  ELSE IF /\ sm2Result.intervalDays >= 30
          /\ sm2Result.easeFactor >= 250
          /\ correctAttempts * 100 >= 80 * totalAttempts
    THEN "Mastered"
  ELSE IF /\ sm2Result.intervalDays >= 7
          /\ sm2Result.easeFactor >= 230
          /\ correctAttempts * 100 >= 70 * totalAttempts
    THEN "Strong"
  ELSE IF /\ sm2Result.intervalDays >= 3
          /\ correctAttempts * 100 >= 60 * totalAttempts
    THEN "Good"
  ELSE IF sm2Result.repetitions >= 1 THEN "Learning"
  ELSE "Weak"

\* The row of a question never answered, as POST /answers takes it.
NoStats ==
  [ease_factor |-> 250, interval_days |-> 1, repetitions |-> 0,
   total_attempts |-> 0, correct_attempts |-> 0, incorrect_attempts |-> 0]

\* SELECT * FROM question_stats WHERE question_id = $1: the values the
\* handler computes from.
SelectStats(questionId) ==
  IF questionId \in DOMAIN question_stats
    THEN question_stats[questionId] ELSE NoStats

\* The result of calculateSM2 for an answer on the values read.
Sm2Of(stats, isCorrect) ==
  calculateSM2(correctnessToQuality(isCorrect), stats.ease_factor,
               stats.interval_days, stats.repetitions)

\* The row POST /answers upserts, computed from the values read.
UpsertRow(stats, isCorrect) ==
  LET sm2Result == Sm2Of(stats, isCorrect)
  IN  [ease_factor |-> sm2Result.easeFactor,
       interval_days |-> sm2Result.intervalDays,
       repetitions |-> sm2Result.repetitions,
       next_review |-> now + sm2Result.intervalDays * DayTicks,
       last_reviewed |-> now,
       total_attempts |-> stats.total_attempts + 1,
       correct_attempts |->
         stats.correct_attempts + (IF isCorrect THEN 1 ELSE 0),
       incorrect_attempts |->
         stats.incorrect_attempts + (IF isCorrect THEN 0 ELSE 1)]

\* The response of POST /answers to an answer that was stored.
AnswerResponse(stats, isCorrect) ==
  Response(200, "", "",
           StrengthLevel(Sm2Of(stats, isCorrect), stats.total_attempts + 1,
                         stats.correct_attempts
                           + (IF isCorrect THEN 1 ELSE 0)))

\* POST /answers handled without another request in between; questionId ""
\* is a request without the field.
PostAnswers(questionId, isCorrect) ==
  IF questionId = ""
    THEN /\ response' = Response(400, "Missing required fields", "", "")
         /\ UNCHANGED <<question_stats, response_history, inflight>>
    ELSE
      LET stats == SelectStats(questionId)
          row == UpsertRow(stats, isCorrect)
      IN  /\ response_history' =
               Append(response_history,
                      [question_id |-> questionId, is_correct |-> isCorrect])
          /\ question_stats' =
               [id \in DOMAIN question_stats \cup {questionId} |->
                  IF id = questionId THEN row ELSE question_stats[id]]
          /\ response' = AnswerResponse(stats, isCorrect)
          /\ UNCHANGED inflight

\* ------------------------------- specification: a run of answers (store)

AnswerEvent ==
  \E q \in {"q1", "q2"}, isCorrect \in BOOLEAN :
    /\ events < MaxEvents
    /\ events' = events + 1
    /\ updateRatingAfterAnswer(q, isCorrect)
    /\ UNCHANGED <<now, mgrVars, learnVars, selVars, backendVars, importVars>>

AnswersTick ==
  /\ now < MaxNow
  /\ now' = now + 1
  /\ UNCHANGED <<events, stateVars, mgrVars, learnVars, selVars, backendVars,
               importVars>>

InitManager ==
  /\ currentQuestionList = << >>
  /\ currentQuestionIndex = 0
  /\ served = "none"
  /\ run = NoRun

\* No import has been made.
NoImport == [called |-> FALSE, ok |-> FALSE, text |-> [kind |-> "none"]]

\* No learning data stored, a SmartSelector that has selected nothing, no
\* import made.
InitLearning ==
  /\ storedArray = FALSE
  /\ imported = NoImport
  /\ learnImported = NoImport
  /\ learningCards = << >>
  /\ sessionStats = << >>
  /\ dailyGoals = << >>
  /\ lastSelectedIds = << >>
  /\ selection = NoSelection
  /\ sessionQuestions = << >>
  /\ question_stats = << >>
  /\ response_history = << >>
  /\ response = Response(0, "", "", "")
  /\ inflight = << >>

InitAnswers ==
  /\ now = 1
  /\ events = 0
  /\ questionStates = << >>
  /\ InitManager
  /\ InitLearning

NextAnswers == AnswerEvent \/ AnswersTick

SpecAnswers == InitAnswers /\ [][NextAnswers]_vars

\* C1: starting from the default state and applying only correct / incorrect
\* answers (updateRatingAfterAnswer), a question's rating stays within [0, 10]
\* after every update.
C1_RatingClamped ==
  \A q \in DOMAIN questionStates : questionStates[q].rating \in 0..10

\* ------------------------------ specification: LocalQuestionManager in use

\* Stored state maps the manager can start with (earlier sessions).
StateRec(rating, streak, incorrect, last) ==
  [rating |-> rating, correctStreak |-> streak, incorrectCount |-> incorrect,
   lastAnswered |-> last]

InitialStores ==
  { << >>,
    [q \in QuestionIds |->
       StateRec(CASE q = "q1" -> 5 [] q = "q2" -> 3 [] OTHER -> 1, 0, 0, 0)],
    [q \in {"q1", "q3"} |->
       IF q = "q1" THEN StateRec(3, 4, 0, 1) ELSE StateRec(3, 0, 2, 1)] }

\* The clock of the session in which the manager is used: a day after the
\* stored answers.
MgrStart == 1 + DayTicks

\* The learner answers the question on screen.
MgrAnswer ==
  \E isCorrect \in BOOLEAN :
    /\ served \in QuestionIds
    /\ events < MaxMgrEvents
    /\ events' = events + 1
    /\ updateRatingAfterAnswer(served, isCorrect)
    /\ run' = IF run.mode = "mostNeeded"
                THEN [run EXCEPT !.statesSame = FALSE] ELSE run
    /\ UNCHANGED <<now, currentQuestionList, currentQuestionIndex, served,
                   learnVars, selVars, backendVars, importVars>>

InitMgr ==
  /\ now = MgrStart
  /\ events = 0
  /\ questionStates \in InitialStores
  /\ InitManager
  /\ InitLearning

NextMgr == getNextQuestion \/ MgrAnswer

SpecMgr == InitMgr /\ [][NextMgr]_vars

\* C2: in most-needed mode the working order is not cached across answers: a
\* most-needed call on the pool the working list was built from (in most-needed
\* mode) leaves the working list in descending order of the current need scores,
\* also after an answer has changed a question's state.
C2_OrderRecomputed ==
  [][\A args \in CallArgs :
       (/\ args.mostNeededMode
        /\ run.mode = "mostNeeded"
        /\ args.pool = run.pool
        /\ GetNextCall(args))
       => currentQuestionList' = sortByNeed(args.pool)]_vars

\* C29: every question getNextQuestion returns is a member of the pool that
\* the section, quiz and rating-range filters of that same call select, also
\* after the selection changed to another pool of the same size and after an
\* answer moved a question's rating out of the requested range.
C29_ServedFromRequestedPool ==
  [][\A args \in CallArgs :
       (GetNextCall(args) /\ served' \in QuestionIds)
       => served' \in Range(args.pool)]_vars

\* C7: in sequential mode, with the same pool of n questions at every call
\* since the working list was built, the k-th call returns the pool's question
\* at position (k-1) mod n (run.calls is k mod n).
C7_SequentialWraparound ==
  run.mode = "sequential" =>
    LET n == Len(run.pool)
    IN  served = run.pool[((run.calls + n - 1) % n) + 1]

\* The fourth call on the three-question pool has wrapped to the first question.
C7_Witness ==
  /\ run.mode = "sequential"
  /\ run.pool = <<"q1", "q2", "q3">>
  /\ Len(run.servedSeq) = 3
  /\ run.calls = 1
  /\ served = "q1"

\* C8: in shuffle mode the n calls that follow a rebuild of the working list
\* (pool of n questions, no rebuild in between) return every question of the
\* pool exactly once, whatever the shuffle produced.
C8_ShuffleCompleteness ==
  (run.mode = "shuffle" /\ Len(run.servedSeq) = Len(run.pool)) =>
    /\ NoDuplicates(run.servedSeq)
    /\ Range(run.servedSeq) = Range(run.pool)

\* Three calls after a shuffle that changed the order of the pool.
C8_Witness ==
  /\ run.mode = "shuffle"
  /\ Len(run.pool) = 3
  /\ Len(run.servedSeq) = 3
  /\ run.servedSeq # run.pool

\* C9: in most-needed mode with the stored states unchanged since the working
\* list was built, the first n calls over a pool of n questions return distinct
\* questions of the pool in non-increasing order of calculateNeedScore of their
\* stored state (the default state without a record).
C9_MostNeededOrdering ==
  (run.mode = "mostNeeded" /\ run.statesSame) =>
    /\ NoDuplicates(run.servedSeq)
    /\ Range(run.servedSeq) \subseteq Range(run.pool)
    /\ \A i, j \in DOMAIN run.servedSeq :
         i < j =>
           calculateNeedScore(getQuestionState(run.servedSeq[i]), now)
             >= calculateNeedScore(getQuestionState(run.servedSeq[j]), now)

\* Ratings q1 = 5, q2 = 3, q3 = 1: three calls have returned q3, q2, q1.
C9_Witness ==
  /\ run.mode = "mostNeeded"
  /\ run.statesSame
  /\ \A q \in QuestionIds : q \in DOMAIN questionStates
  /\ questionStates["q1"].rating = 5
  /\ questionStates["q2"].rating = 3
  /\ questionStates["q3"].rating = 1
  /\ run.servedSeq = <<"q3", "q2", "q1">>

\* The calls whose pool is empty.
EmptyPoolArgs == {args \in CallArgs : Len(args.pool) = 0}

\* C10: a call of getNextQuestion whose pool is empty after the section, quiz
\* and rating-range filters signals no-questions-available instead of a
\* question and leaves the working list and the position unchanged.
C10_EmptyPoolSignal ==
  [][\A args \in EmptyPoolArgs :
       GetNextCall(args)
       => /\ served' = "NoQuestionsAvailable"
          /\ UNCHANGED <<currentQuestionList, currentQuestionIndex>>]_vars

\* The signal was given while a working list was in use, part-way through it.
C10_Witness ==
  /\ served = "NoQuestionsAvailable"
  /\ currentQuestionList # << >>
  /\ currentQuestionIndex # 0


\* ------------------------------------- specification: the learning screen

\* The question lists the learning screen hands to the selector.
LearnQuestions ==
  {<< >>, <<"q1">>, <<"q1", "q2", "q3", "q4", "q5", "q6">>}

\* The confidence ratings given with an answer: a complete guess or instant
\* recall.
Confidences == {0, 3}

\* On the learning screen the learner rates every answer as instant recall.
ScreenConfidences == {3}

\* loadNextQuestion: the selector picks the next question of the study mode.
LearnNextQuestion ==
  \E allQuestions \in LearnQuestions, mode \in StudyModes :
    /\ SmartGetNextQuestion(allQuestions, mode)
    /\ UNCHANGED <<now, events, stateVars, mgrVars, learnVars,
                   sessionQuestions, backendVars, importVars>>

\* handleConfidenceSelect: the learner rates the answer to the question shown.
LearnAnswer ==
  \E wasCorrect \in BOOLEAN, confidence \in ScreenConfidences :
    /\ selection.question \in LearnIds
    /\ events < MaxLearnAnswers
    /\ events' = events + 1
    /\ recordAnswer(selection.question, wasCorrect, confidence)
    /\ UNCHANGED <<now, stateVars, mgrVars, selVars, backendVars, importVars>>

\* A day passes.
LearnTick ==
  /\ now < 1 + MaxLearnDays * DayTicks
  /\ now' = now + DayTicks
  /\ UNCHANGED <<events, stateVars, mgrVars, learnVars, selVars, backendVars,
               importVars>>

InitLearn ==
  /\ now = 1
  /\ events = 0
  /\ questionStates = << >>
  /\ InitManager
  /\ InitLearning

NextLearn == LearnNextQuestion \/ LearnAnswer \/ LearnTick

SpecLearn == InitLearn /\ [][NextLearn]_vars

\* accuracy < 0.6, accuracy being 1 without reviews (getWeakAreas).
WeakAccuracy(card) ==
  card.totalReviews > 0 /\ 10 * card.correctReviews < 6 * card.totalReviews

\* C23: in mode 'weak-areas' the card SmartSelector.getNextQuestion selects
\* has totalReviews >= 3 and accuracy < 0.6 or averageConfidence < 1.5; a card
\* with fewer than three reviews is never selected as a weak-area card.
C23_WeakAreasFilter ==
  [][\A allQuestions \in LearnQuestions :
       /\ SmartGetNextQuestion(allQuestions, "weak-areas")
       /\ selection'.question \in LearnIds
       => LET card == getLearningCard(selection'.question)
          IN  /\ card.totalReviews >= 3
              /\ WeakAccuracy(card) \/ LowConfidence(card)]_vars


\* ------------------------------------- specification: study session batches

\* A batch of questions is asked for a study session.
SessionBatch ==
  \E allQuestions \in LearnQuestions, maxCards \in 1..MaxCards,
     mixNewCards \in BOOLEAN :
    /\ sessionQuestions' =
         getSessionQuestions(allQuestions, maxCards, mixNewCards)
    /\ UNCHANGED <<now, events, stateVars, mgrVars, learnVars,
                   lastSelectedIds, selection, backendVars, importVars>>

\* The learner rates the answer to a question of the batch.
SessionAnswer ==
  \E questionId \in Range(sessionQuestions), wasCorrect \in BOOLEAN,
     confidence \in Confidences :
    /\ events < MaxSessionAnswers
    /\ events' = events + 1
    /\ recordAnswer(questionId, wasCorrect, confidence)
    /\ UNCHANGED <<now, stateVars, mgrVars, selVars, backendVars, importVars>>

\* A day passes.
SessionTick ==
  /\ now < 1 + MaxSessionDays * DayTicks
  /\ now' = now + DayTicks
  /\ UNCHANGED <<events, stateVars, mgrVars, learnVars, selVars, backendVars,
               importVars>>

NextSession == SessionBatch \/ SessionAnswer \/ SessionTick

SpecSession == InitLearn /\ [][NextSession]_vars

\* C3: the list getSessionQuestions returns holds no question id twice, across
\* its three passes (due cards, new cards, remainder), also when a card is both
\* due and in stage new.
C3_NoDuplicateInBatch == NoDuplicates(sessionQuestions)

\* C4: getNextQuestion in mode due-only on a pool with questions none of whose
\* cards is due (dueDate <= now) returns no question.
C4_DueOnlyEmptySignal ==
  [][\A allQuestions \in LearnQuestions :
       (/\ Len(allQuestions) > 0
        /\ Len(getDueCards(CardsOf(allQuestions))) = 0
        /\ SmartGetNextQuestion(allQuestions, "due-only")
        /\ UNCHANGED <<now, events, learnVars>>)
       => selection'.question = "null"]_vars

\* C6: getNextQuestion never returns a question among the recently selected
\* ids it tracks (at most 5) when a candidate of the mode is outside them; when
\* every candidate is among them a question is returned all the same, and null
\* is returned only for a pool without questions.
C6_AntiRepeatWindow ==
  /\ Len(lastSelectedIds) <= MAX_RECENT
  /\ NoDuplicates(lastSelectedIds)
  /\ selection.hadFresh => ~selection.wasRecent
  /\ selection.poolSize > 0 => selection.question \in LearnIds

\* A question outside a full window of five was there, and it was selected.
C6_Witness ==
  /\ Len(lastSelectedIds) = MAX_RECENT
  /\ selection.question \in LearnIds
  /\ selection.hadFresh
  /\ selection.question = lastSelectedIds[MAX_RECENT]
  /\ "q1" \notin Range(lastSelectedIds)



\* ----------------------------------------------- specification: the backend

\* The request bodies of POST /questions/next.
Requests ==
  {[sections |-> sel[1], quizzes |-> sel[2], shuffleMode |-> shuffleMode,
    onlyDue |-> onlyDue] :
     sel \in Selections, shuffleMode \in BOOLEAN, onlyDue \in BOOLEAN}

\* One request POST /questions/next.
NextRequest(req) ==
  /\ PostQuestionsNext(req.sections, req.quizzes, req.shuffleMode, req.onlyDue)
  /\ UNCHANGED <<now, events, stateVars, mgrVars, learnVars, selVars,
               importVars>>

BackendNext == \E req \in Requests : NextRequest(req)

BackendAnswer ==
  \E questionId \in QuestionIds \cup {""}, isCorrect \in BOOLEAN :
    /\ events < MaxBackendAnswers
    /\ events' = events + 1
    /\ PostAnswers(questionId, isCorrect)
    /\ UNCHANGED <<now, stateVars, mgrVars, learnVars, selVars, importVars>>

\* A day passes.
BackendTick ==
  /\ now < 1 + MaxBackendDays * DayTicks
  /\ now' = now + DayTicks
  /\ UNCHANGED <<events, stateVars, mgrVars, learnVars, selVars, backendVars,
               importVars>>

NextBackend == BackendNext \/ BackendAnswer \/ BackendTick

SpecBackend == InitLearn /\ [][NextBackend]_vars

\* The ease factors calculateSM2 is called with: the default of a question
\* without a row and the ones stored in question_stats.
BackendEaseFactors ==
  {NoStats.ease_factor}
  \cup {question_stats[id].ease_factor : id \in DOMAIN question_stats}

\* C27: for every quality (one outside 0..5 being clamped) and every current
\* ease factor within [1.3, 2.5], the easeFactor calculateSM2 returns is
\* within [1.3, 2.5], and the ease_factor stored in question_stats is within
\* that range after every answer.
C27_BackendEaseBounds ==
  /\ \A id \in DOMAIN question_stats :
       /\ question_stats[id].ease_factor >= 130
       /\ question_stats[id].ease_factor <= 250
  /\ \A quality \in (0 - 1)..6, ef \in BackendEaseFactors :
       LET sm2Result == calculateSM2(quality, ef, 1, 0)
       IN  sm2Result.easeFactor >= 130 /\ sm2Result.easeFactor <= 250

\* C5 as stated: a request with onlyDue on a pool with questions none of which
\* has a stats row with next_review <= now is answered 'No questions due',
\* whatever shuffleMode is and whether or not unstudied questions exist; 'No
\* questions available' is returned only for an empty pool.
C5_DueOnlyAlways ==
  [][\A req \in Requests :
       LET allQuestions == BackendQuestions(req.sections, req.quizzes)
       IN  NextRequest(req) =>
             /\ (/\ req.onlyDue
                 /\ Len(allQuestions) > 0
                 /\ DueRows(Range(allQuestions)) = {})
                => (response'.status = 404
                    /\ response'.error = "No questions due")
             /\ response'.error = "No questions available"
                => Len(allQuestions) = 0]_vars

\* C5, amended: a request with onlyDue and without shuffleMode on a pool with
\* questions, every one of which has a stats row and none a row with
\* next_review <= now, is answered 'No questions due' and never a question; 'No
\* questions available' is returned only for an empty pool.
C5_DueOnlyStudied ==
  [][\A req \in Requests :
       LET allQuestions == BackendQuestions(req.sections, req.quizzes)
       IN  NextRequest(req) =>
             /\ (/\ req.onlyDue
                 /\ ~req.shuffleMode
                 /\ Len(allQuestions) > 0
                 /\ Range(allQuestions) \subseteq DOMAIN question_stats
                 /\ DueRows(Range(allQuestions)) = {})
                => (response'.status = 404
                    /\ response'.error = "No questions due"
                    /\ response'.question = "")
             /\ response'.error = "No questions available"
                => Len(allQuestions) = 0]_vars

\* 'No questions due' was the answer, with stats rows in the table.
C5_Witness ==
  /\ response.status = 404
  /\ response.error = "No questions due"
  /\ DOMAIN question_stats # {}


\* ------------------------- specification: reviews of one card (SM-2 engine)

\* The cards a run of reviews starts from: a new card, a card reviewed twice
\* and a card reviewed three times (all reviews successful, so that the
\* counters and the stage are the ones those reviews leave), each at the
\* lowest, a middle and the highest ease factor.
ReviewCards ==
  { [createLearningCard("q1") EXCEPT
       !.easeFactor = ef, !.repetitions = sched[1], !.interval = sched[2],
       !.totalReviews = sched[1], !.correctReviews = sched[1],
       !.stage = IF sched[1] = 0 THEN "new"
                 ELSE StageAfterReview(FALSE, sched[1])] :
      ef \in {MinEase, 200, MaxEase},
      sched \in {<<0, 0>>, <<2, 6>>, <<3, 15>>} }

\* calculateNextReview is applied to the card.
ReviewStep(quality, wasCorrect) ==
  /\ events' = events + 1
  /\ learningCards' =
       [learningCards EXCEPT
          !["q1"] = calculateNextReview(@, quality, wasCorrect)]

ReviewCard ==
  \E quality \in 0..5, wasCorrect \in BOOLEAN :
    /\ events < MaxReviews
    /\ ReviewStep(quality, wasCorrect)
    /\ UNCHANGED <<now, stateVars, mgrVars, sessionStats, dailyGoals, selVars,
                   backendVars, importVars>>

\* A day passes.
ReviewTick ==
  /\ now < 1 + MaxReviewDays * DayTicks
  /\ now' = now + DayTicks
  /\ UNCHANGED <<events, stateVars, mgrVars, learnVars, selVars, backendVars,
                 importVars>>

InitReview ==
  /\ now = 1
  /\ events = 0
  /\ questionStates = << >>
  /\ InitManager
  /\ learningCards \in {[id \in {"q1"} |-> card] : card \in ReviewCards}
  /\ sessionStats = << >>
  /\ dailyGoals = << >>
  /\ lastSelectedIds = << >>
  /\ selection = NoSelection
  /\ sessionQuestions = << >>
  /\ question_stats = << >>
  /\ response_history = << >>
  /\ response = Response(0, "", "", "")
  /\ inflight = << >>
  /\ storedArray = FALSE
  /\ imported = NoImport
  /\ learnImported = NoImport

NextReview == ReviewCard \/ ReviewTick

SpecReview == InitReview /\ [][NextReview]_vars

\* C11: a card whose ease factor starts within [1.3, 2.5] has its ease factor
\* within [1.3, 2.5] after every review by calculateNextReview, whatever the
\* qualities 0..5 of the reviews.
C11_EaseFactorClamped ==
  \A id \in DOMAIN learningCards :
    /\ learningCards[id].easeFactor >= 130
    /\ learningCards[id].easeFactor <= 250

\* A card reviewed at least twice, once correctly, that a failed review left
\* at the lowest ease factor.
C11_Witness ==
  /\ learningCards["q1"].totalReviews >= 2
  /\ learningCards["q1"].easeFactor = 130
  /\ learningCards["q1"].repetitions = 0
  /\ learningCards["q1"].correctReviews = 1

\* C20: a review of quality q < 3 sets repetitions to 0 and the interval to 1;
\* a review of quality q >= 3 adds one to repetitions and sets the interval to
\* 1 when the new repetitions is 1, to 6 when it is 2, and otherwise to the
\* interval stored before the call times the ease factor just updated,
\* rounded; dueDate is then now plus interval days.
C20_Sm2Schedule ==
  [][\A quality \in 0..5, wasCorrect \in BOOLEAN :
       ReviewStep(quality, wasCorrect) =>
         LET old == learningCards["q1"]
             new == learningCards'["q1"]
         IN  /\ quality < 3 => new.repetitions = 0 /\ new.interval = 1
             /\ quality >= 3 =>
                  /\ new.repetitions = old.repetitions + 1
                  /\ new.interval =
                       CASE new.repetitions = 1 -> 1
                         [] new.repetitions = 2 -> 6
                         [] OTHER ->
                              (2 * old.interval * new.easeFactor + 100)
                                \div 200
             /\ new.dueDate = now + new.interval * DayTicks]_vars

\* A card whose third or later successful review gave it an interval that is
\* the rounded product, rounded up.
C20_Witness ==
  /\ learningCards["q1"].totalReviews >= 1
  /\ learningCards["q1"].repetitions >= 3
  /\ learningCards["q1"].interval = 38
  /\ learningCards["q1"].dueDate = now + 38 * DayTicks

\* The stage the specification gives for a successful review: 'mastered' from
\* five repetitions on and 'review' before, the first two included.
C21_StageReviewOrMastered ==
  [][\A quality \in 3..5, wasCorrect \in BOOLEAN :
       ReviewStep(quality, wasCorrect) =>
         learningCards'["q1"].stage =
           IF learningCards'["q1"].repetitions >= 5 THEN "mastered"
           ELSE "review"]_vars

\* C21: after a successful review (quality >= 3) the stage is 'learning' when
\* the new repetitions is 1 or 2, 'review' when it is 3 or 4 and 'mastered'
\* when it is 5 or more; after a failed review it is 'learning'.
C21_StageAfterSuccess ==
  [][\A quality \in 0..5, wasCorrect \in BOOLEAN :
       ReviewStep(quality, wasCorrect) =>
         LET new == learningCards'["q1"]
         IN  /\ quality < 3 => new.stage = "learning"
             /\ quality >= 3 =>
                  new.stage =
                    CASE new.repetitions \in {1, 2} -> "learning"
                      [] new.repetitions \in {3, 4} -> "review"
                      [] OTHER -> "mastered"]_vars

\* A card whose second successful review in a row left it in 'learning' at
\* two repetitions.
C21_Witness ==
  /\ events >= 2
  /\ learningCards["q1"].repetitions = 2
  /\ learningCards["q1"].totalReviews >= 2
  /\ learningCards["q1"].stage = "learning"

\* C26: calculateNextReview adds one to totalReviews and adds one to
\* correctReviews exactly when the answer was correct; in every state
\* 0 <= correctReviews <= totalReviews, and the stage is 'new' only while
\* totalReviews is 0.
C26_ReviewCounters ==
  /\ [](\A id \in DOMAIN learningCards :
          LET card == learningCards[id]
          IN  /\ 0 <= card.correctReviews
              /\ card.correctReviews <= card.totalReviews
              /\ card.stage = "new" => card.totalReviews = 0)
  /\ [][\A quality \in 0..5, wasCorrect \in BOOLEAN :
          ReviewStep(quality, wasCorrect) =>
            LET old == learningCards["q1"]
                new == learningCards'["q1"]
            IN  /\ new.totalReviews = old.totalReviews + 1
                /\ new.correctReviews =
                     old.correctReviews + (IF wasCorrect THEN 1 ELSE 0)]_vars

\* A card that started new and was reviewed three times, once incorrectly.
C26_Witness ==
  /\ events = 3
  /\ learningCards["q1"].totalReviews = 3
  /\ learningCards["q1"].correctReviews = 2
  /\ learningCards["q1"].stage # "new"


\* ------------------------ specification: the store, answers and ratings

\* The questions answered and rated.
StoreIds == {"q1", "q2"}

\* Levels of the manual rating buttons (0..10): the lowest, one between and
\* the highest.
Ratings == {0, 4, 10}

\* updateRatingAfterAnswer is called for an answer.
StoreAnswerStep(questionId, isCorrect) ==
  /\ events' = events + 1
  /\ updateRatingAfterAnswer(questionId, isCorrect)

\* setQuestionRating is called with a level of the rating buttons.
StoreRateStep(questionId, rating) ==
  /\ events' = events + 1
  /\ setQuestionRating(questionId, rating)

StoreAnswer ==
  \E questionId \in StoreIds, isCorrect \in BOOLEAN :
    /\ events < MaxStoreEvents
    /\ StoreAnswerStep(questionId, isCorrect)
    /\ UNCHANGED <<now, mgrVars, learnVars, selVars, backendVars, importVars>>

StoreRate ==
  \E questionId \in StoreIds, rating \in Ratings :
    /\ events < MaxStoreEvents
    /\ StoreRateStep(questionId, rating)
    /\ UNCHANGED <<now, mgrVars, learnVars, selVars, backendVars, importVars>>

\* Time passes: half a day, or 31 days.
StoreTick ==
  \E ticks \in {1, 31 * DayTicks} :
    /\ now < MaxStoreNow
    /\ now' = now + ticks
    /\ UNCHANGED <<events, stateVars, mgrVars, learnVars, selVars,
                   backendVars, importVars>>

NextStore == StoreAnswer \/ StoreRate \/ StoreTick

SpecStore == InitAnswers /\ [][NextStore]_vars

\* C12: across correct answers, incorrect answers and manual rating sets a
\* question's incorrectCount never decreases, and each incorrect answer adds
\* exactly one to it.
C12_IncorrectCountMonotonic ==
  [][/\ \A q \in DOMAIN questionStates :
          /\ q \in DOMAIN questionStates'
          /\ questionStates'[q].incorrectCount
               >= questionStates[q].incorrectCount
     /\ \A q \in StoreIds :
          StoreAnswerStep(q, FALSE) =>
            StateOf(questionStates', q).incorrectCount
              = StateOf(questionStates, q).incorrectCount + 1]_vars

\* A question answered incorrectly, then rated by hand, then answered
\* correctly: its incorrect answer is still counted.
C12_Witness ==
  /\ "q1" \in DOMAIN questionStates
  /\ questionStates["q1"].incorrectCount = 1
  /\ questionStates["q1"].correctStreak = 1
  /\ questionStates["q1"].rating = 5

\* C18: updateRatingAfterAnswer on a stored state s gives, for a correct
\* answer, rating min(10, s.rating + 1), correctStreak s.correctStreak + 1 and
\* incorrectCount unchanged; for an incorrect answer, rating
\* max(0, s.rating - 1), correctStreak 0 and incorrectCount
\* s.incorrectCount + 1; lastAnswered is the current time in both cases.
C18_UpdateRule ==
  [][\A q \in StoreIds, isCorrect \in BOOLEAN :
       StoreAnswerStep(q, isCorrect) =>
         LET s == StateOf(questionStates, q)
             t == StateOf(questionStates', q)
         IN  /\ isCorrect =>
                  /\ t.rating = IF s.rating + 1 > 10 THEN 10 ELSE s.rating + 1
                  /\ t.correctStreak = s.correctStreak + 1
                  /\ t.incorrectCount = s.incorrectCount
             /\ ~isCorrect =>
                  /\ t.rating = IF s.rating - 1 < 0 THEN 0 ELSE s.rating - 1
                  /\ t.correctStreak = 0
                  /\ t.incorrectCount = s.incorrectCount + 1
             /\ t.lastAnswered = now]_vars

\* C19: calculateNeedScore(state) is (100 - 15 * rating) + 5 * incorrectCount
\* - 3 * correctStreak + min(daysSince, 30), daysSince being the whole days
\* since lastAnswered when lastAnswered > 0 and 0 otherwise; an unknown
\* question scores 100; the score does not grow with rating or correctStreak
\* and does not shrink with incorrectCount or with the days since the answer.
C19_NeedScoreFormula ==
  /\ calculateNeedScore(DefaultState, now) = 100
  /\ \A q \in DOMAIN questionStates :
       LET s == questionStates[q]
           daysSince == IF s.lastAnswered > 0
                          THEN (now - s.lastAnswered) \div DayTicks ELSE 0
           score == calculateNeedScore(s, now)
       IN  /\ score = (100 - 15 * s.rating) + 5 * s.incorrectCount
                        - 3 * s.correctStreak
                        + (IF daysSince > 30 THEN 30 ELSE daysSince)
           /\ calculateNeedScore([s EXCEPT !.rating = @ + 1], now) <= score
           /\ calculateNeedScore([s EXCEPT !.correctStreak = @ + 1], now)
                <= score
           /\ calculateNeedScore([s EXCEPT !.incorrectCount = @ + 1], now)
                >= score
           /\ calculateNeedScore(s, now + DayTicks) >= score

\* A question answered both ways more than 30 days ago: every term of the
\* score counts and the time boost is at its cap.
C19_Witness ==
  \E q \in DOMAIN questionStates :
    /\ questionStates[q].rating > 0
    /\ questionStates[q].correctStreak > 0
    /\ questionStates[q].incorrectCount > 0
    /\ (now - questionStates[q].lastAnswered) \div DayTicks > 30
    /\ calculateNeedScore(questionStates[q], now) = 117


\* -------------------------- specification: export and import of the store

\* A record of the four fields as written in a text.
JRecord(rating, streak, incorrect, last) ==
  JObject(<< <<"rating", rating>>, <<"correctStreak", streak>>,
             <<"incorrectCount", incorrect>>, <<"lastAnswered", last>> >>)

\* A record as exported for a question answered before.
GoodRecord == JRecord(JNumber(3), JNumber(2), JNumber(1), JNumber(7))

\* The texts handed to importState.
ImportBlobs ==
  { Garbage, JString("string"), JNumber(5), JNull,
    JArray(<< >>), JArray(<<JNumber(5)>>),
    JObject(<< >>),
    JObject(<< <<"q1", GoodRecord>> >>),
    JObject(<< <<"q1", GoodRecord>>,
               <<"q2", JObject(<< <<"rating", JNumber(3)>>,
                                  <<"correctStreak", JNumber(2)>>,
                                  <<"incorrectCount", JNumber(1)>> >>)>> >>),
    JObject(<< <<"q1", GoodRecord>>,
               <<"q2", JRecord(JString("3"), JNumber(0), JNumber(0),
                               JNumber(7))>> >>),
    JObject(<< <<"q1", GoodRecord>>, <<"q2", JNull>> >>),
    JObject(<< <<"q1", JNumber(5)>> >>) }

\* updateRatingAfterAnswer is called for an answer.
ImportAnswer ==
  \E questionId \in StoreIds, isCorrect \in BOOLEAN :
    /\ events < MaxImportEvents
    /\ events' = events + 1
    /\ updateRatingAfterAnswer(questionId, isCorrect)
    /\ UNCHANGED <<now, mgrVars, learnVars, selVars, backendVars,
                   storedArray, imported, learnImported>>

\* importState is called with a text.
ImportStep(text) ==
  /\ importState(text)
  /\ UNCHANGED <<now, events, mgrVars, learnVars, selVars, backendVars,
                 learnImported>>

\* The text is a file written by hand or by another program.
ImportFile == \E text \in ImportBlobs : ImportStep(text)

\* The text is what exportState returns.
ImportExported == ImportStep(exportState)

NextImport == ImportAnswer \/ ImportFile \/ ImportExported

SpecImport == InitAnswers /\ [][NextImport]_vars

C15_RoundTrip ==
  [][~storedArray /\ ImportStep(exportState) =>
       /\ imported'.ok
       /\ questionStates' = questionStates
       /\ ~storedArray']_vars

\* The export of a store of two answered questions has been imported.
C15_Witness ==
  /\ imported.called
  /\ imported.ok
  /\ ~storedArray
  /\ imported.text = exportState
  /\ DOMAIN questionStates = {"q1", "q2"}
  /\ questionStates["q1"].incorrectCount = 1
  /\ questionStates["q2"].correctStreak = 1


\* --------------------------- specification: import of the learning data

\* An exported card of question id, reviewed twice (ease factor 2.5).
GoodCard(id) ==
  JObject(<< <<"questionId", JString(id)>>, <<"easeFactor", JNumber(250)>>,
             <<"interval", JNumber(6)>>, <<"repetitions", JNumber(2)>>,
             <<"dueDate", JNumber(13)>>, <<"totalReviews", JNumber(2)>>,
             <<"correctReviews", JNumber(2)>>, <<"lastReviewed", JNumber(1)>>,
             <<"confidenceHistory", JArray(<<JNumber(3), JNumber(3)>>)>>,
             <<"averageConfidence", JNumber(3)>>,
             <<"stage", JString("learning")>>, <<"priority", JNumber(30)>> >>)

\* The same card with its easeFactor missing.
CardWithoutEase(id) ==
  JObject(SelectSeq(GoodCard(id).members, LAMBDA m : m[1] # "easeFactor"))

\* Exported goals and an exported session.
GoodGoals ==
  JObject(<< <<"targetCards", JNumber(20)>>, <<"cardsCompleted", JNumber(5)>>,
             <<"targetMinutes", JNumber(20)>>, <<"minutesSpent", JNumber(0)>>,
             <<"streak", JNumber(0)>>, <<"lastStudyDate", JNumber(0)>> >>)

GoodSession ==
  JObject(<< <<"startTime", JNumber(1)>>, <<"questionsAnswered", JNumber(5)>>,
             <<"correctAnswers", JNumber(5)>>,
             <<"totalConfidence", JNumber(15)>>, <<"streak", JNumber(5)>>,
             <<"timeSpent", JNumber(0)>> >>)

\* The texts handed to importLearningData.
LearnBlobs ==
  { Garbage, JNull, JNumber(5), JObject(<< >>),
    JObject(<< <<"cards", JObject(<< <<"q2", GoodCard("q2")>> >>)>> >>),
    JObject(<< <<"cards", JObject(<< <<"q2", GoodCard("q2")>> >>)>>,
               <<"session", GoodSession>>, <<"goals", GoodGoals>> >>),
    JObject(<< <<"cards", JObject(<< <<"q2", GoodCard("q2")>>,
                                     <<"q3", CardWithoutEase("q3")>> >>)>>,
               <<"session", GoodSession>>, <<"goals", GoodGoals>> >>) }

\* importLearningData is called with a text.
LearnImportStep(text) ==
  /\ importLearningData(text)
  /\ UNCHANGED <<now, events, stateVars, mgrVars, selVars, backendVars,
                 storedArray, imported>>

LearnImportFile == \E text \in LearnBlobs : LearnImportStep(text)

\* recordAnswer is called for an answer to question q1, rated as instant
\* recall.
LearnImportAnswer ==
  \E wasCorrect \in BOOLEAN :
    /\ events < MaxLearnImportAnswers
    /\ events' = events + 1
    /\ recordAnswer("q1", wasCorrect, 3)
    /\ UNCHANGED <<now, stateVars, mgrVars, selVars, backendVars, importVars>>

\* A day passes.
LearnImportTick ==
  /\ now < 1 + MaxLearnImportDays * DayTicks
  /\ now' = now + DayTicks
  /\ UNCHANGED <<events, stateVars, mgrVars, learnVars, selVars, backendVars,
                 importVars>>

NextLearnImport == LearnImportFile \/ LearnImportAnswer \/ LearnImportTick

SpecLearnImport == InitLearn /\ [][NextLearnImport]_vars

\* C14: importLearningData accepts an import only when every card record has
\* all its numeric fields; when a single record is malformed the import is
\* refused as a whole and the stored cards, session and goals stay as they
\* were.
C14_LearnImportValidated ==
  [][\A text \in LearnBlobs :
       LET numeric(record, f) ==
             \E j \in DOMAIN record.members :
               /\ record.members[j][1] = f
               /\ record.members[j][2].kind = "number"
           lacking(record) ==
             \/ record.kind # "object"
             \/ \E f \in {"easeFactor", "interval", "repetitions", "dueDate",
                           "totalReviews", "correctReviews", "lastReviewed",
                           "averageConfidence", "priority"} :
                  ~numeric(record, f)
           malformed ==
             /\ text.kind = "object"
             /\ \E i \in DOMAIN text.members :
                  /\ text.members[i][1] = "cards"
                  /\ text.members[i][2].kind = "object"
                  /\ \E k \in DOMAIN text.members[i][2].members :
                       lacking(text.members[i][2].members[k][2])
       IN  LearnImportStep(text) /\ malformed =>
             /\ learnImported'.ok = FALSE
             /\ UNCHANGED <<learningCards, sessionStats, dailyGoals>>]_vars


\* ------------------------------------ specification: the daily goals

\* Targets a learner sets: one card a day, no minimum of minutes.
GoalTargets == {<<1, 0>>}

\* recordAnswer is called for an answer to question q1, rated as instant
\* recall.
GoalsAnswerStep(wasCorrect) ==
  /\ events' = events + 1
  /\ now' = now
  /\ recordAnswer("q1", wasCorrect, 3)

GoalsAnswer ==
  \E wasCorrect \in BOOLEAN :
    /\ events < MaxGoalAnswers
    /\ GoalsAnswerStep(wasCorrect)
    /\ UNCHANGED <<stateVars, mgrVars, selVars, backendVars, importVars>>

\* getLearningProgress is called.
GoalsReadStep ==
  /\ events' = events
  /\ now' = now
  /\ getLearningProgress

GoalsRead ==
  /\ GoalsReadStep
  /\ UNCHANGED <<stateVars, mgrVars, selVars, backendVars, importVars>>

GoalsTargets ==
  \E targets \in GoalTargets :
    /\ setDailyGoalTargets(targets[1], targets[2])
    /\ UNCHANGED <<now, events, stateVars, mgrVars, learningCards,
                   sessionStats, selVars, backendVars, importVars>>

\* A day passes.
GoalsTick ==
  /\ now < 1 + MaxGoalDays * DayTicks
  /\ now' = now + DayTicks
  /\ UNCHANGED <<events, stateVars, mgrVars, learnVars, selVars, backendVars,
                 importVars>>

NextGoals == GoalsAnswer \/ GoalsRead \/ GoalsTargets \/ GoalsTick

SpecGoals == InitLearn /\ [][NextGoals]_vars

\* C16: the completed count of the daily goals is per calendar day: a read on
\* a new day sets cardsCompleted and minutesSpent to zero, and each recorded
\* answer makes cardsCompleted one more than the answers counted so far on
\* the same day - the answers of the day before, recorded in the session still
\* open, are not counted again.
C16_CompletedPerDay ==
  [][/\ GoalsReadStep /\ dailyGoals # << >>
        /\ dailyGoals.lastStudyDate # DateOf(now) =>
          dailyGoals'.cardsCompleted = 0 /\ dailyGoals'.minutesSpent = 0
     /\ \A wasCorrect \in BOOLEAN :
          GoalsAnswerStep(wasCorrect) =>
            dailyGoals'.cardsCompleted =
              1 + (IF dailyGoals # << >>
                      /\ dailyGoals.lastStudyDate = DateOf(now)
                     THEN dailyGoals.cardsCompleted ELSE 0)]_vars

\* C17: when the goals are read on a day other than the stored last-active
\* date, the streak grows (by one) only if the goal of the previous active day
\* had been met, and is set back to zero otherwise.
C17_StreakOnRollover ==
  [][GoalsReadStep /\ dailyGoals # << >>
       /\ dailyGoals.lastStudyDate # DateOf(now) =>
         LET met == /\ dailyGoals.cardsCompleted >= dailyGoals.targetCards
                    /\ dailyGoals.minutesSpent >= dailyGoals.targetMinutes
         IN  IF met
               THEN dailyGoals'.streak \in
                      {dailyGoals.streak, dailyGoals.streak + 1}
               ELSE dailyGoals'.streak = 0]_vars


\* --------------------- specification: answers recorded with any confidence

\* The confidence values recordAnswer is called with: the lowest and the
\* highest level, and numbers outside 0..3 on either side.
AnyConfidences == {0 - 1, 0, 3, 7}

\* The answers recorded: to q1 with every confidence value, to q2 as a
\* complete guess or as instant recall; q3 is never answered and has no
\* stored card.
RecordInputs ==
  {<<"q1", wasCorrect, confidence>> :
     wasCorrect \in BOOLEAN, confidence \in AnyConfidences}
  \cup {<<"q2", FALSE, 0>>, <<"q2", TRUE, 3>>}

\* recordAnswer is called for an answer to the question.
RecordStep(questionId, wasCorrect, confidence) ==
  /\ events' = events + 1
  /\ now' = now
  /\ recordAnswer(questionId, wasCorrect, confidence)

RecordAnswer ==
  \E input \in RecordInputs :
    /\ events < MaxRecordAnswers
    /\ RecordStep(input[1], input[2], input[3])
    /\ UNCHANGED <<stateVars, mgrVars, selVars, backendVars, importVars>>

\* resetSession is called (a study session is started).
RecordResetStep ==
  /\ events' = events
  /\ now' = now
  /\ resetSession

RecordReset ==
  /\ RecordResetStep
  /\ UNCHANGED <<stateVars, mgrVars, learningCards, dailyGoals, selVars,
                 backendVars, importVars>>

\* A day passes.
RecordTick ==
  /\ now < 1 + MaxRecordDays * DayTicks
  /\ now' = now + DayTicks
  /\ UNCHANGED <<events, stateVars, mgrVars, learnVars, selVars, backendVars,
                 importVars>>

NextRecord == RecordAnswer \/ RecordReset \/ RecordTick

SpecRecord == InitLearn /\ [][NextRecord]_vars

\* C22: for every confidence value, those outside 0..3 included, recording an
\* answer does not fail, the derived quality lies in 0..5, and every
\* confidence stored in confidenceHistory, and the averageConfidence computed
\* from it, lies within 0..3.
C22_ConfidenceClamped ==
  /\ \A wasCorrect \in BOOLEAN, confidence \in AnyConfidences :
       confidenceToQuality(confidence, wasCorrect) \in 0..5
  /\ \A id \in DOMAIN learningCards :
       LET card == learningCards[id]
       IN  /\ \A i \in DOMAIN card.confidenceHistory :
                card.confidenceHistory[i] \in 0..3
           /\ card.averageConfidence.sum >= 0
           /\ card.averageConfidence.sum <= 3 * card.averageConfidence.count

\* C28: updateSessionStats adds one to questionsAnswered, adds one to
\* correctAnswers exactly when the answer was correct, and adds one to streak
\* on a correct answer and sets it to 0 on an incorrect one; in every state
\* of a session correctAnswers <= questionsAnswered and
\* streak <= correctAnswers.
C28_SessionCounters ==
  /\ [](sessionStats # << >> =>
          /\ sessionStats.correctAnswers <= sessionStats.questionsAnswered
          /\ sessionStats.streak <= sessionStats.correctAnswers)
  /\ [][\A input \in RecordInputs :
          RecordStep(input[1], input[2], input[3]) =>
            LET old == LoadedSession(sessionStats)
                new == sessionStats'
                wasCorrect == input[2]
            IN  /\ new.questionsAnswered = old.questionsAnswered + 1
                /\ new.correctAnswers =
                     old.correctAnswers + (IF wasCorrect THEN 1 ELSE 0)
                /\ new.streak = IF wasCorrect THEN old.streak + 1 ELSE 0]_vars

\* A session of two answers whose streak an incorrect answer set back to 0
\* after a correct one.
C28_Witness ==
  /\ sessionStats # << >>
  /\ sessionStats.questionsAnswered = 2
  /\ sessionStats.correctAnswers = 1
  /\ sessionStats.streak = 0

\* The cards of questions q1, q2 and q3 as the selector gets them at this
\* moment: the stored card, or a new card for a question without one.
RecordCards == Range(CardsOf(<<"q1", "q2", "q3">>))

BatchQuestions == {<<"q1">>, <<"q1", "q2", "q3", "q4", "q5", "q6">>}

\* The values of maxCards a batch is asked with.
BatchSizes == {0, 3, MaxCards}

\* getSessionQuestions is called.
BatchStep(allQuestions, maxCards, mixNewCards) ==
  sessionQuestions' = getSessionQuestions(allQuestions, maxCards, mixNewCards)

BatchAsk ==
  \E allQuestions \in BatchQuestions, maxCards \in BatchSizes,
     mixNewCards \in BOOLEAN :
    /\ BatchStep(allQuestions, maxCards, mixNewCards)
    /\ UNCHANGED <<now, events, stateVars, mgrVars, learnVars,
                   lastSelectedIds, selection, backendVars, importVars>>

\* recordAnswer is called for an answer to q1 or q2, rated as instant recall.
BatchAnswer ==
  \E questionId \in {"q1", "q2"}, wasCorrect \in BOOLEAN :
    /\ events < MaxBatchAnswers
    /\ events' = events + 1
    /\ recordAnswer(questionId, wasCorrect, 3)
    /\ UNCHANGED <<now, stateVars, mgrVars, selVars, backendVars, importVars>>

\* A day passes.
BatchTick ==
  /\ now < 1 + MaxBatchDays * DayTicks
  /\ now' = now + DayTicks
  /\ UNCHANGED <<events, stateVars, mgrVars, learnVars, selVars, backendVars,
                 importVars>>

NextBatch == BatchAsk \/ BatchAnswer \/ BatchTick

SpecBatch == InitLearn /\ [][NextBatch]_vars

\* C25: getSessionQuestions returns at most maxCards questions, for every
\* maxCards >= 0: at most floor(0.7 * maxCards) cards come from the due pass
\* and at most floor(0.3 * maxCards) from the new pass, none when mixNewCards
\* is false, and the remainder pass only adds cards not already chosen.
C25_BatchCaps ==
  [][\A allQuestions \in BatchQuestions, maxCards \in BatchSizes,
        mixNewCards \in BOOLEAN :
       BatchStep(allQuestions, maxCards, mixNewCards) =>
         LET cards == CardsOf(allQuestions)
             due == SessionDuePass(cards, maxCards)
             new == SessionNewPass(cards, maxCards, mixNewCards, due)
             rest == SessionRemainderPass(cards, maxCards, due \o new)
             chosen == {(due \o new)[i].questionId : i \in DOMAIN (due \o new)}
         IN  /\ Len(sessionQuestions') <= maxCards
             /\ Len(sessionQuestions') = Len(due) + Len(new) + Len(rest)
             /\ 10 * Len(due) <= 7 * maxCards
             /\ 10 * Len(new) <= 3 * maxCards
             /\ ~mixNewCards => Len(new) = 0
             /\ \A i \in DOMAIN rest : rest[i].questionId \notin chosen]_vars

\* A full batch of four made after an answer took the answered question's
\* card out of the due cards and out of the new cards: the card is not in
\* the batch.
C25_Witness ==
  /\ Len(sessionQuestions) = 4
  /\ \E id \in DOMAIN learningCards :
       /\ id \notin Range(sessionQuestions)
       /\ learningCards[id].dueDate > now


\* ------------- specification: POST /answers requests handled concurrently

\* The handler of POST /answers awaits each of its three queries; between two
\* of them the handlers of other requests run.  All requests are answers to
\* question q1.
RequestIds == 1..MaxRequests

\* A request arrives with its fields set and its INSERT INTO response_history
\* is done.
AnswerInsert(request, isCorrect) ==
  /\ request \notin DOMAIN inflight
  /\ response_history' =
       Append(response_history,
              [question_id |-> "q1", is_correct |-> isCorrect])
  /\ inflight' =
       [r \in DOMAIN inflight \cup {request} |->
          IF r = request
            THEN [pc |-> "select", isCorrect |-> isCorrect, stats |-> NoStats]
            ELSE inflight[r]]
  /\ UNCHANGED <<question_stats, response>>

\* The request's SELECT on question_stats is done: the handler has the
\* current values, or the defaults when there is no row.
AnswerSelect(request) ==
  /\ request \in DOMAIN inflight
  /\ inflight[request].pc = "select"
  /\ inflight' =
       [inflight EXCEPT ![request] =
          [@ EXCEPT !.pc = "upsert", !.stats = SelectStats("q1")]]
  /\ UNCHANGED <<question_stats, response_history, response>>

\* The request's INSERT ... ON CONFLICT DO UPDATE is done with the values
\* computed from what the request read, and the response is sent.
AnswerUpsert(request) ==
  /\ request \in DOMAIN inflight
  /\ inflight[request].pc = "upsert"
  /\ question_stats' =
       [id \in DOMAIN question_stats \cup {"q1"} |->
          IF id = "q1"
            THEN UpsertRow(inflight[request].stats,
                           inflight[request].isCorrect)
            ELSE question_stats[id]]
  /\ response' = AnswerResponse(inflight[request].stats,
                                inflight[request].isCorrect)
  /\ inflight' = [inflight EXCEPT ![request] = [@ EXCEPT !.pc = "done"]]
  /\ UNCHANGED response_history

ConcurrentInsert ==
  \E request \in RequestIds, isCorrect \in BOOLEAN :
    /\ AnswerInsert(request, isCorrect)
    /\ UNCHANGED <<now, events, stateVars, mgrVars, learnVars, selVars,
                   importVars>>

ConcurrentSelect ==
  \E request \in RequestIds :
    /\ AnswerSelect(request)
    /\ UNCHANGED <<now, events, stateVars, mgrVars, learnVars, selVars,
                   importVars>>

ConcurrentUpsert ==
  \E request \in RequestIds :
    /\ AnswerUpsert(request)
    /\ UNCHANGED <<now, events, stateVars, mgrVars, learnVars, selVars,
                   importVars>>

NextConcurrent == ConcurrentInsert \/ ConcurrentSelect \/ ConcurrentUpsert

SpecConcurrent == InitLearn /\ [][NextConcurrent]_vars

\* The rows of response_history logged for question q1.
HistoryRows ==
  {i \in DOMAIN response_history : response_history[i].question_id = "q1"}

\* C30: for every interleaving of k POST /answers requests for the same
\* question, once all k have completed the stored total_attempts equals k,
\* equals correct_attempts + incorrect_attempts, and equals the number of
\* response_history rows logged for the question.
C30_NoLostAnswer ==
  (/\ DOMAIN inflight # {}
   /\ \A request \in DOMAIN inflight : inflight[request].pc = "done")
  => /\ "q1" \in DOMAIN question_stats
     /\ question_stats["q1"].total_attempts = Cardinality(DOMAIN inflight)
     /\ question_stats["q1"].total_attempts =
          question_stats["q1"].correct_attempts
          + question_stats["q1"].incorrect_attempts
     /\ question_stats["q1"].total_attempts = Cardinality(HistoryRows)

====
